---- MODULE Spec2Model ----
(***************************************************************************)
(* A model of the chip8 interpreter of src/src/main.rs: the memory unit    *)
(* (Mmu), the instruction decoder (Cpu::read_instruction), the executor    *)
(* (Cpu::execute_instruction) and the host loop of main.                   *)
(*                                                                         *)
(* Four specifications share the state and the operators:                  *)
(*   Spec        main as written: load the image, then fetch and decode    *)
(*               in a loop, advancing pc by 2, until a fetch fails;        *)
(*   SpecCpu     the Cpu driven step by step: read_instruction and         *)
(*               execute_instruction, over the same images;                *)
(*   SpecMmu     the Mmu's methods called directly;                        *)
(*   SpecDecode  read_instruction over the words of DecodeWords at pc.      *)
(***************************************************************************)
EXTENDS Integers, Sequences, FiniteSets, Bags, TLC

VARIABLES
    rom,      \* the program image handed to load_rom (main's `rom`: Vec<u8>)
    ram,      \* Mmu.ram: Vec<u8>
    vram,     \* Mmu.vram: Vec<u8>
    v,        \* Cpu.v: [u8; 16]
    i,        \* Cpu.i
    stack,    \* Cpu.stack: [usize; 16]
    pc,       \* Cpu.pc
    sp,       \* Cpu.sp
    phase,    \* "new" | "running" | "exited" | "panicked"
    loadres,  \* what load_rom returned: "None" | "Ok" | "Err"
    instr,    \* what read_instruction returned last
    acc       \* what read_byte / read_word returned last

vars == <<rom, ram, vram, v, i, stack, pc, sp, phase, loadres, instr, acc>>

---------------------------------------------------------------------------
(* Program constants *)

RamSize == 4096
VramSize == 2048
RomBase == 512
MaxRomLen == 4096
PcStart == 512
NumRegs == 16
StackSize == 16
MaxVNibble == 9
\* an instruction word is a u16
WordBits == 16

(* Bounds of the model *)

\* the longest program, in instruction words, of the enumerated images
MaxProgWords == 2

\* the longest enumerated program, in instruction words, that the host loop
\* is followed over to its end
MaxLiveWords == 1

---------------------------------------------------------------------------
(* `let x = e; body`: e is computed once and body is given its value *)

Bind(e, Body(_)) == CHOOSE r \in { Body(x) : x \in {e} } : TRUE

---------------------------------------------------------------------------
(* Arithmetic on machine words *)

\* a >> n
Shr(a, n) == a \div (2 ^ n)

\* bit k of a
Bit(a, k) == Shr(a, k) % 2

\* a & b on u16 operands: the sum of 2^k over the bits k set in both
BitAnd(a, b) ==
    BagCardinality([k \in { j \in 0..(WordBits - 1) : Bit(a, j) = 1 /\ Bit(b, j) = 1 } |-> 2 ^ k])

AsU8(a) == a % 256

Min(S) == CHOOSE x \in S : \A y \in S : x <= y

---------------------------------------------------------------------------
(* Vec<u8>.  A byte vector is held as its runs: <<[b |-> 0, n |-> 512],     *)
(* [b |-> 18, n |-> 1]>> is 512 zero bytes and then the byte 18.  Runs are  *)
(* never empty and neighbouring runs differ in their byte, so that equal   *)
(* vectors are equal values.  Indices count from 0, as in the source.      *)

Run(b, n) == [b |-> b, n |-> n]

\* vec![b; n]
VecFill(b, n) == IF n = 0 THEN <<>> ELSE <<Run(b, n)>>

\* v.len()
RECURSIVE VecLen(_)
VecLen(s) == IF s = <<>> THEN 0 ELSE Head(s).n + VecLen(Tail(s))

\* v[index], for index < v.len()
RECURSIVE VecAt(_, _)
VecAt(s, index) ==
    IF index < Head(s).n THEN Head(s).b ELSE VecAt(Tail(s), index - Head(s).n)

\* the first k bytes of v, and the bytes after them
RECURSIVE VecTake(_, _)
VecTake(s, k) ==
    IF k = 0 \/ s = <<>> THEN <<>>
    ELSE IF Head(s).n <= k THEN <<Head(s)>> \o VecTake(Tail(s), k - Head(s).n)
    ELSE <<Run(Head(s).b, k)>>

RECURSIVE VecDrop(_, _)
VecDrop(s, k) ==
    IF k = 0 \/ s = <<>> THEN s
    ELSE IF Head(s).n <= k THEN VecDrop(Tail(s), k - Head(s).n)
    ELSE <<Run(Head(s).b, Head(s).n - k)>> \o Tail(s)

\* the bytes of s followed by the bytes of t
VecCat(s, t) ==
    IF s = <<>> THEN t
    ELSE IF t = <<>> THEN s
    ELSE IF s[Len(s)].b = t[1].b
    THEN SubSeq(s, 1, Len(s) - 1) \o <<Run(t[1].b, s[Len(s)].n + t[1].n)>> \o Tail(t)
    ELSE s \o t

\* the vector of the bytes listed in q
RECURSIVE VecOf(_)
VecOf(q) == IF q = <<>> THEN <<>> ELSE VecCat(<<Run(Head(q), 1)>>, VecOf(Tail(q)))

\* v.insert(index, x), for index <= v.len(): everything from index on
\* moves one place right
VecInsert(s, index, x) ==
    Bind(VecTake(s, index), LAMBDA front :
    Bind(VecDrop(s, index), LAMBDA back :
    Bind(VecCat(front, <<Run(x, 1)>>), LAMBDA grown : VecCat(grown, back))))

---------------------------------------------------------------------------
(* Results.  A method returns Ok(value) or Err(message); an out-of-bounds   *)
(* index or a panic!() aborts the process ("Panic").                       *)

NoResult == [fn |-> "-", index |-> 0, kind |-> "None", val |-> 0, err |-> ""]
OkVal(x) == [kind |-> "Ok", val |-> x, err |-> ""]
ErrVal(msg) == [kind |-> "Err", val |-> 0, err |-> msg]
PanicVal == [kind |-> "Panic", val |-> 0, err |-> "index out of bounds"]

---------------------------------------------------------------------------
(* Mmu *)

\* Mmu::new
MmuNewRam == VecFill(0, RamSize)
MmuNewVram == VecFill(0, VramSize)

\* self.ram[index], index counted from 0
RamAt(r, index) == VecAt(r, index)
InBounds(r, index) == index >= 0 /\ index < VecLen(r)

read_byte(r, index) ==
    IF index > VecLen(r) THEN ErrVal("unable to read byte")
    ELSE IF ~InBounds(r, index) THEN PanicVal
    ELSE OkVal(RamAt(r, index))

read_word(r, index) ==
    IF index + 1 > VecLen(r) THEN ErrVal("unable to read word")
    ELSE IF ~InBounds(r, index) \/ ~InBounds(r, index + 1) THEN PanicVal
    ELSE OkVal(RamAt(r, index) * 256 + RamAt(r, index + 1))

\* The iterations lo..hi of load_rom's loop (i = lo - 1 .. hi - 1), in order,
\* on the store st.ram; the range is halved so that the evaluation stays
\* shallow.  Vec::insert panics on an index beyond the length: st.aborted.
RECURSIVE LoadLoop(_, _, _, _)
LoadLoop(st, image, lo, hi) ==
    IF lo > hi \/ st.aborted THEN st
    ELSE IF (lo - 1) + RomBase > VecLen(st.ram) THEN [aborted |-> TRUE, ram |-> st.ram]
    ELSE IF lo = hi
    THEN [aborted |-> FALSE,
          ram |-> VecInsert(st.ram, (lo - 1) + RomBase, VecAt(image, lo - 1))]
    ELSE LET mid == (lo + hi) \div 2
         IN  Bind(LoadLoop(st, image, lo, mid), LAMBDA half :
                  LoadLoop(half, image, mid + 1, hi))

RomTooLarge(image) == VecLen(image) > MaxRomLen

\* load_rom: the result and the byte store it leaves
load_rom(r, image) ==
    IF RomTooLarge(image)
    THEN [res |-> "Err", ram |-> r]
    ELSE Bind(LoadLoop([aborted |-> FALSE, ram |-> r], image, 1, VecLen(image)),
              LAMBDA st : IF st.aborted THEN [res |-> "Panic", ram |-> st.ram]
                          ELSE [res |-> "Ok", ram |-> st.ram])

\* Mmu::clear_vram: Vec::clear
mmu_clear_vram(vr) == <<>>

---------------------------------------------------------------------------
(* Registers, operands and instructions *)

\* enum Register
RegisterV(n) == [reg |-> "V", n |-> n]
RegisterI == [reg |-> "I", n |-> 0]
RegisterDt == [reg |-> "Dt", n |-> 0]
RegisterSt == [reg |-> "St", n |-> 0]
NoRegister == [reg |-> "None", n |-> 0]

\* enum Operand; JP carries a bare usize
OperandAddr(a) == [kind |-> "Addr", reg |-> "-", val |-> a]
OperandByte(b) == [kind |-> "Byte", reg |-> "-", val |-> b]
OperandRegister(r) == [kind |-> "Register", reg |-> r.reg, val |-> r.n]
Usize(a) == [kind |-> "usize", reg |-> "-", val |-> a]
NoOperand == [kind |-> "None", reg |-> "-", val |-> 0]

\* Result<Op, String>
NoInstr == [kind |-> "None", name |-> "-", a |-> NoOperand, b |-> NoOperand,
            c |-> NoOperand, err |-> ""]
OkOp(name, a, b, c) == [kind |-> "Ok", name |-> name, a |-> a, b |-> b,
                        c |-> c, err |-> ""]
ErrOp(msg) == [kind |-> "Err", name |-> "-", a |-> NoOperand, b |-> NoOperand,
               c |-> NoOperand, err |-> msg]
PanicOp == [kind |-> "Panic", name |-> "-", a |-> NoOperand, b |-> NoOperand,
            c |-> NoOperand, err |-> "index out of bounds"]

ErrNibble == "can't read reg from nibble"
ErrUnknown == "can't handle op"

---------------------------------------------------------------------------
(* Cpu::read_instruction *)

\* reg_from_nibble: Some(V(op)) or None
reg_from_nibble(op) ==
    IF op \in 0..MaxVNibble THEN RegisterV(op) ELSE NoRegister

high_nib(op) == Shr(op, 12)
\* (op >> 8 & 0x0F), (op >> 4 & 0xF)
NibX(op) == BitAnd(Shr(op, 8), \h0F)
NibY(op) == BitAnd(Shr(op, 4), \hF)
\* the DRAW arm's `nibble`: (op >> 4 & 0xF) & 0x00FF
DrawNibble(op) == BitAnd(BitAnd(Shr(op, 4), \hF), \h00FF)
\* the operand taken from the whole word, the opcode nibble left in
NnnUnmasked(op) == op
\* op & 0x0FFF
Nnn(op) == BitAnd(op, \h0FFF)

\* a guard that masks the opcode family only (0xF000 for 0xF00F)
MatchFamilyOnly(op, pat) == BitAnd(op, \hF000) = BitAnd(pat, \hF000)

\* the guards op & 0xF00F == pat and op & 0xF0FF == pat
MatchLowNibble(op, pat) == BitAnd(op, \hF00F) = pat
MatchLowByte(op, pat) == BitAnd(op, \hF0FF) = pat

\* an arm that reads one register: reg_from_nibble(x).ok_or(..)? and then
\* Ok(Op(Register(reg), second)) or, with regFirst false, Ok(Op(second, Register(reg)))
ArmX(name, op, second, regFirst) ==
    Bind(reg_from_nibble(NibX(op)), LAMBDA reg :
        IF reg = NoRegister THEN ErrOp(ErrNibble)
        ELSE IF regFirst THEN OkOp(name, OperandRegister(reg), second, NoOperand)
        ELSE OkOp(name, second, OperandRegister(reg), NoOperand))

\* an arm that reads two registers, then a third operand
ArmXY(name, op, third) ==
    Bind(reg_from_nibble(NibX(op)), LAMBDA reg_a :
    Bind(reg_from_nibble(NibY(op)), LAMBDA reg_b :
        IF reg_a = NoRegister \/ reg_b = NoRegister THEN ErrOp(ErrNibble)
        ELSE OkOp(name, OperandRegister(reg_a), OperandRegister(reg_b), third)))

Arm(g, res) == [guard |-> g, res |-> res]

\* the arms of `match op`, in the order of the source
Arms(op) == <<
    Arm(op = \h00E0, OkOp("CLS", NoOperand, NoOperand, NoOperand)),
    Arm(op = \h00EE, OkOp("RET", NoOperand, NoOperand, NoOperand)),
    Arm(high_nib(op) = \h1, OkOp("JP", Usize(Nnn(op)), NoOperand, NoOperand)),
    Arm(high_nib(op) = \h2, OkOp("CALL", OperandAddr(Nnn(op)), NoOperand, NoOperand)),
    Arm(high_nib(op) = \h3, ArmX("SE", op, OperandByte(AsU8(op)), TRUE)),
    Arm(high_nib(op) = \h4, ArmX("SNE", op, OperandByte(AsU8(op)), TRUE)),
    Arm(high_nib(op) = \h5, ArmXY("SE", op, NoOperand)),
    Arm(high_nib(op) = \h6, ArmX("LD", op, OperandByte(AsU8(op)), TRUE)),
    Arm(high_nib(op) = \h7, ArmX("ADD", op, OperandByte(AsU8(op)), TRUE)),
    Arm(MatchLowNibble(op, \h8000), ArmXY("LD", op, NoOperand)),
    Arm(MatchLowNibble(op, \h8001), ArmXY("OR", op, NoOperand)),
    Arm(MatchLowNibble(op, \h8002), ArmXY("AND", op, NoOperand)),
    Arm(MatchLowNibble(op, \h8003), ArmXY("XOR", op, NoOperand)),
    Arm(MatchLowNibble(op, \h8004), ArmXY("ADD", op, NoOperand)),
    Arm(MatchLowNibble(op, \h8005), ArmXY("SUB", op, NoOperand)),
    Arm(MatchLowNibble(op, \h8006), ArmXY("SHR", op, NoOperand)),
    Arm(MatchLowNibble(op, \h8007), ArmXY("SUBN", op, NoOperand)),
    Arm(MatchLowNibble(op, \h800E), ArmXY("SHL", op, NoOperand)),
    Arm(high_nib(op) = \h9, ArmXY("SNE", op, NoOperand)),
    Arm(high_nib(op) = \hA,
        OkOp("LD", OperandRegister(RegisterI), OperandAddr(Nnn(op)), NoOperand)),
    Arm(high_nib(op) = \hB,
        OkOp("JPREG", OperandRegister(RegisterV(0)), OperandAddr(Nnn(op)), NoOperand)),
    Arm(high_nib(op) = \hC,
        ArmX("RND", op, OperandByte(BitAnd(AsU8(op), \h00FF)), TRUE)),
    Arm(high_nib(op) = \hD, ArmXY("DRAW", op, OperandByte(AsU8(DrawNibble(op))))),
    Arm(MatchLowByte(op, \hE09E), ArmX("SKIPKEY", op, NoOperand, TRUE)),
    Arm(MatchLowByte(op, \hE0A1), ArmX("SKIPNOKEY", op, NoOperand, TRUE)),
    Arm(MatchLowByte(op, \hF007), ArmX("LD", op, OperandRegister(RegisterDt), TRUE)),
    Arm(MatchLowByte(op, \hF00A), ArmX("WAITKEY", op, NoOperand, TRUE)),
    Arm(MatchLowByte(op, \hF015), ArmX("LD", op, OperandRegister(RegisterDt), FALSE)),
    Arm(MatchLowByte(op, \hF018), ArmX("LD", op, OperandRegister(RegisterSt), FALSE)),
    Arm(MatchLowByte(op, \hF01E), ArmX("ADD", op, OperandRegister(RegisterI), FALSE)),
    Arm(MatchLowByte(op, \hF029), ArmX("SPRITECHAR", op, NoOperand, TRUE)),
    Arm(MatchLowByte(op, \hF033), ArmX("MOVBCD", op, NoOperand, TRUE)),
    Arm(MatchLowByte(op, \hF055), ArmX("READM", op, NoOperand, TRUE)),
    Arm(MatchLowByte(op, \hF065), ArmX("WRITEM", op, NoOperand, TRUE)) >>

\* the arms of a table whose guard holds
MatchingIn(arms) == {k \in DOMAIN arms : arms[k].guard}

\* the arms whose guard op satisfies
Matching(op) == MatchingIn(Arms(op))

\* `match op`: the first arm whose guard holds, or the `_` arm
FirstMatch(arms) ==
    LET m == MatchingIn(arms)
    IN  IF m = {} THEN ErrOp(ErrUnknown) ELSE arms[Min(m)].res

Decode(op) == Bind(op, LAMBDA word : Bind(Arms(word), LAMBDA arms : FirstMatch(arms)))

\* read_instruction: `?` hands read_word's Err on, an abort stays an abort
read_instruction(r, p) ==
    Bind(read_word(r, p), LAMBDA w :
        CASE w.kind = "Err" -> ErrOp(w.err)
          [] w.kind = "Panic" -> PanicOp
          [] OTHER -> Decode(w.val))

---------------------------------------------------------------------------
(* Cpu::new and Cpu::execute_instruction *)

CpuNewV == [n \in 0..(NumRegs - 1) |-> 0]
CpuNewStack == [n \in 0..(StackSize - 1) |-> 0]

\* enum ProgramCounter
PcNext == [kind |-> "Next", addr |-> 0]
PcJump(addr) == [kind |-> "Jump", addr |-> addr]

\* Cpu::clear_vram: clears the Mmu's vram and answers Next
cpu_clear_vram(vr) == [vram |-> mmu_clear_vram(vr), pc_change |-> PcNext]

\* an LD arm that refuses every destination but a V register, whatever the
\* source is
LdPanicsAnySource(ins) == ins.a.kind = "Register" /\ ins.a.reg # "V"

\* the LD arm: a byte goes to a V register, an address to I; any other
\* register with a byte or an address is a panic!; a register source is
\* left alone
LdPanics(ins) ==
    /\ ins.a.kind = "Register"
    /\ \/ ins.b.kind = "Byte" /\ ins.a.reg # "V"
       \/ ins.b.kind = "Addr" /\ ins.a.reg # "I"

LdV(vv, ins) ==
    IF ins.a.kind = "Register" /\ ins.b.kind = "Byte" /\ ins.a.reg = "V"
    THEN [vv EXCEPT ![ins.a.val] = ins.b.val]
    ELSE vv

LdI(ii, ins) ==
    IF ins.a.kind = "Register" /\ ins.b.kind = "Addr" /\ ins.a.reg = "I"
    THEN ins.b.val
    ELSE ii

\* `let pc_change = match instruction`: CLS, JP and LD have arms, every
\* other Op falls to `_ => ProgramCounter::Next`
pc_change(ins) ==
    CASE ins.name = "CLS" -> PcNext
      [] ins.name = "JP" -> PcJump(ins.a.val)
      [] ins.name = "LD" -> PcNext
      [] OTHER -> PcNext

\* a jump that is followed by the default step of 2
ApplyPcChangeThenStep(p, change) ==
    IF change.kind = "Next" THEN p + 2 ELSE change.addr + 2

\* `match pc_change`
ApplyPcChange(p, change) ==
    IF change.kind = "Next" THEN p + 2 ELSE change.addr

\* execute_instruction on the Cpu `cpu` (a record of its fields)
execute_instruction(cpu, ins) ==
    [panic |-> ins.name = "LD" /\ LdPanics(ins),
     vram  |-> IF ins.name = "CLS" THEN cpu_clear_vram(cpu.vram).vram ELSE cpu.vram,
     v     |-> IF ins.name = "LD" THEN LdV(cpu.v, ins) ELSE cpu.v,
     i     |-> IF ins.name = "LD" THEN LdI(cpu.i, ins) ELSE cpu.i,
     stack |-> cpu.stack,
     sp    |-> cpu.sp,
     pc    |-> ApplyPcChange(cpu.pc, pc_change(ins))]

---------------------------------------------------------------------------
(* Program images *)

\* an instruction word as it lies in the image: big-endian
WordBytes(w) == <<w \div 256, w % 256>>

\* the bytes of a program given as a sequence of words
ProgBytes(prog) ==
    [k \in 1..(2 * Len(prog)) |->
        IF k % 2 = 1 THEN prog[(k + 1) \div 2] \div 256 ELSE prog[k \div 2] % 256]

\* the instruction words the enumerated programs are made of
ProgWords ==
    { \h0000, \h00E0, \h00EE, \h1200, \h1203, \h2300,
      \h3000, \h4005, \h5010, \h9010, \h6005, \h61FF,
      \h8014, \hAFFF, \hD015, \hF00A, \hF01E }

Progs == UNION { [1..n -> ProgWords] : n \in 0..MaxProgWords }

ProgImages == { VecOf(ProgBytes(p)) : p \in Progs }

\* images of odd length: a program of at most one word and a last byte
OddImages ==
    { VecOf(ProgBytes(p) \o <<\h12>>) : p \in UNION { [1..n -> ProgWords] : n \in 0..1 } }

\* n CALLs in a row, each to the address right after it
CallChain(n) == VecOf(ProgBytes([k \in 1..n |-> \h2000 + PcStart + 2 * k]))

CallChains == { CallChain(n) : n \in 1..(StackSize + 1) }

\* images around the two size limits: what fits behind 0x200, and load_rom's own
BigLens == { RamSize - RomBase, RamSize - RomBase + 1, MaxRomLen, MaxRomLen + 1 }

\* filled with zeros (no instruction) or with 0x66 (0x6666 is LD V6,0x66)
BigImages == { VecFill(b, n) : b \in {\h00, \h66}, n \in BigLens }

Images == ProgImages \cup OddImages \cup CallChains \cup BigImages

\* the register nibbles at and around the limit of reg_from_nibble
XNibbles == { 0, 9, 10, 15 }

\* one image for every 16-bit word whose second nibble is one of XNibbles
DecodeWords ==
    { hi * 4096 + x * 256 + lo : hi \in 0..15, x \in XNibbles, lo \in 0..255 }

WordImages == { VecOf(WordBytes(w)) : w \in DecodeWords }

---------------------------------------------------------------------------
(* The state after Mmu::new, with the image read *)

InitWith(images) ==
    /\ rom \in images
    /\ ram = MmuNewRam
    /\ vram = MmuNewVram
    /\ v = CpuNewV
    /\ i = 0
    /\ stack = CpuNewStack
    /\ pc = PcStart
    /\ sp = 0
    /\ phase = "new"
    /\ loadres = "None"
    /\ instr = NoInstr
    /\ acc = NoResult

Init == InitWith(Images)

\* main: mmu.load_rom(rom).expect(..), then Cpu::new(mmu)
Setup ==
    /\ phase = "new"
    /\ \E r \in {load_rom(ram, rom)} :
           /\ loadres' = r.res
           /\ ram' = r.ram
           /\ phase' = IF r.res = "Ok" THEN "running" ELSE "panicked"
    /\ v' = CpuNewV
    /\ i' = 0
    /\ stack' = CpuNewStack
    /\ pc' = PcStart
    /\ sp' = 0
    /\ UNCHANGED <<rom, vram, instr, acc>>

\* a loop that reports a failed fetch and goes on to the next word
MainLoopNoBreak ==
    /\ phase = "running"
    /\ \E op \in {read_instruction(ram, pc)} :
           /\ instr' = op
           /\ pc' = pc + 2
           /\ phase' = IF op.kind = "Panic" \/ pc >= VecLen(ram) THEN "panicked" ELSE "running"
    /\ UNCHANGED <<rom, ram, vram, v, i, stack, sp, loadres, acc>>

\* a loop that executes what it fetched, the pc left to execute_instruction
MainLoopExecutes ==
    /\ phase = "running"
    /\ \E op \in {read_instruction(ram, pc)} :
       \E r \in {execute_instruction([vram |-> vram, v |-> v, i |-> i,
                                       stack |-> stack, sp |-> sp, pc |-> pc], op)} :
           /\ instr' = op
           /\ pc' = IF op.kind = "Ok" /\ ~r.panic THEN r.pc ELSE pc
           /\ vram' = IF op.kind = "Ok" /\ ~r.panic THEN r.vram ELSE vram
           /\ v' = IF op.kind = "Ok" /\ ~r.panic THEN r.v ELSE v
           /\ i' = IF op.kind = "Ok" /\ ~r.panic THEN r.i ELSE i
           /\ phase' = CASE op.kind = "Ok" /\ ~r.panic -> "running"
                         [] op.kind = "Err" -> "exited"
                         [] OTHER -> "panicked"
    /\ UNCHANGED <<rom, ram, stack, sp, loadres, acc>>

\* main: one turn of the loop
MainLoop ==
    /\ phase = "running"
    /\ \E op \in {read_instruction(ram, pc)} :
           /\ instr' = op
           /\ pc' = IF op.kind = "Ok" THEN pc + 2 ELSE pc
           /\ phase' = CASE op.kind = "Ok" -> "running"
                         [] op.kind = "Err" -> "exited"
                         [] OTHER -> "panicked"
    /\ UNCHANGED <<rom, ram, vram, v, i, stack, sp, loadres, acc>>

Next == Setup \/ MainLoop

Spec == Init /\ [][Next]_vars

\* the images the host loop is followed over to its end: the short
\* programs, the odd-length images and the images around the size limits
LiveImages ==
    { VecOf(ProgBytes(p)) : p \in UNION { [1..n -> ProgWords] : n \in 0..MaxLiveWords } }
        \cup OddImages \cup BigImages

InitLive == InitWith(LiveImages)

\* main runs on its own: whenever a step is possible, one is taken
SpecLive == InitLive /\ [][Next]_vars /\ WF_vars(Next)

---------------------------------------------------------------------------
(* The Cpu driven step by step *)

\* cpu.read_instruction()
ReadInstruction ==
    /\ phase = "running"
    /\ instr = NoInstr
    /\ instr' = read_instruction(ram, pc)
    /\ phase' = IF instr'.kind = "Panic" THEN "panicked" ELSE "running"
    /\ UNCHANGED <<rom, ram, vram, v, i, stack, pc, sp, loadres, acc>>

\* cpu.execute_instruction(op), op the Op read_instruction returned
ExecuteInstruction ==
    /\ phase = "running"
    /\ instr.kind = "Ok"
    /\ LET cpu == [vram |-> vram, v |-> v, i |-> i, stack |-> stack,
                   sp |-> sp, pc |-> pc]
           r == execute_instruction(cpu, instr)
       IN  IF r.panic
           THEN /\ phase' = "panicked"
                /\ UNCHANGED <<vram, v, i, stack, sp, pc>>
           ELSE /\ phase' = "running"
                /\ vram' = r.vram
                /\ v' = r.v
                /\ i' = r.i
                /\ stack' = r.stack
                /\ sp' = r.sp
                /\ pc' = r.pc
    /\ instr' = NoInstr
    /\ UNCHANGED <<rom, ram, loadres, acc>>

NextCpu == Setup \/ ReadInstruction \/ ExecuteInstruction

SpecCpu == Init /\ [][NextCpu]_vars

---------------------------------------------------------------------------
(* read_instruction over the words of DecodeWords *)

InitDecode == InitWith(WordImages)

NextDecode == Setup \/ ReadInstruction

SpecDecode == InitDecode /\ [][NextDecode]_vars

---------------------------------------------------------------------------
(* The Mmu's methods called directly *)

\* the indices the accessors are called with: both ends of the store
ProbeIndices(r) ==
    { 0, RomBase, VecLen(r) - 2, VecLen(r) - 1, VecLen(r), VecLen(r) + 1 }

AccResult(fn, index, res) ==
    [fn |-> fn, index |-> index, kind |-> res.kind, val |-> res.val, err |-> res.err]

\* mmu.load_rom(rom) on the new Mmu, the result left to the caller; the
\* other methods are called after it (the empty image leaves the store as
\* Mmu::new made it)
MmuLoadRom ==
    /\ phase = "new"
    /\ \E r \in {load_rom(ram, rom)} :
           /\ loadres' = r.res
           /\ ram' = r.ram
           /\ phase' = IF r.res = "Panic" THEN "panicked" ELSE "running"
    /\ UNCHANGED <<rom, vram, v, i, stack, pc, sp, instr, acc>>

\* mmu.read_byte(index)
ReadByte ==
    /\ phase = "running"
    /\ \E index \in ProbeIndices(ram) :
          /\ acc' = AccResult("read_byte", index, read_byte(ram, index))
          /\ phase' = IF acc'.kind = "Panic" THEN "panicked" ELSE phase
    /\ UNCHANGED <<rom, ram, vram, v, i, stack, pc, sp, loadres, instr>>

\* mmu.read_word(index)
ReadWord ==
    /\ phase = "running"
    /\ \E index \in ProbeIndices(ram) :
          /\ acc' = AccResult("read_word", index, read_word(ram, index))
          /\ phase' = IF acc'.kind = "Panic" THEN "panicked" ELSE phase
    /\ UNCHANGED <<rom, ram, vram, v, i, stack, pc, sp, loadres, instr>>

\* mmu.clear_vram()
ClearVram ==
    /\ phase = "running"
    /\ vram' = mmu_clear_vram(vram)
    /\ UNCHANGED <<rom, ram, v, i, stack, pc, sp, phase, loadres, instr, acc>>

NextMmu == MmuLoadRom \/ ReadByte \/ ReadWord \/ ClearVram

SpecMmu == Init /\ [][NextMmu]_vars

---------------------------------------------------------------------------
(* The claims *)

\* the word at pc, and its fields as the instruction set names them
FetchedWord == read_word(ram, pc).val
WordHi(w) == w \div 4096
WordX(w) == (w \div 256) % 16
WordY(w) == (w \div 16) % 16
WordN(w) == w % 16
WordLo(w) == w % 256

\* read_instruction has answered for the word at pc
Decoded == phase = "running" /\ instr.kind \in {"Ok", "Err"}

V(n) == OperandRegister(RegisterV(n))

ELowBytes == { \h9E, \hA1 }
FLowBytes == { \h07, \h0A, \h15, \h18, \h1E, \h29, \h33, \h55, \h65 }
AluLowNibbles == (0..7) \cup { 14 }

\* the families that carry a register in the second nibble, and in the third
HasRegX(w) ==
    \/ WordHi(w) \in { 3, 4, 5, 6, 7, 9, 12, 13 }
    \/ WordHi(w) = 8 /\ WordN(w) \in AluLowNibbles
    \/ WordHi(w) = 14 /\ WordLo(w) \in ELowBytes
    \/ WordHi(w) = 15 /\ WordLo(w) \in FLowBytes

HasRegY(w) ==
    \/ WordHi(w) \in { 5, 9, 13 }
    \/ WordHi(w) = 8 /\ WordN(w) \in AluLowNibbles

\* C1: every word of a family that carries register fields decodes, for
\* every value 0..15 of each field, to an instruction on V(nibble); no word
\* is rejected for a register nibble of 10..15.
C1_AllRegisterNibblesDecode ==
    Decoded =>
        LET w == FetchedWord
        IN  /\ HasRegX(w) => instr.kind = "Ok" /\ V(WordX(w)) \in {instr.a, instr.b}
            /\ HasRegY(w) => instr.kind = "Ok" /\ instr.b = V(WordY(w))

\* the words the instruction set does not list
Unlisted(w) ==
    \/ WordHi(w) = 0 /\ w \notin { \h00E0, \h00EE }
    \/ WordHi(w) = 8 /\ WordN(w) \notin AluLowNibbles
    \/ WordHi(w) = 14 /\ WordLo(w) \notin ELowBytes
    \/ WordHi(w) = 15 /\ WordLo(w) \notin FLowBytes

\* C2: for every word fetched at pc no two guards of read_instruction hold
\* together, 0x00E0 decodes to CLS and 0x00EE to RET, and the words that
\* match no guard are exactly the unlisted ones, which yield the decode
\* error and no instruction.
C2_DecodeUnambiguous ==
    Decoded =>
        LET w == FetchedWord
        IN  /\ Cardinality(Matching(w)) <= 1
            /\ w = \h00E0 => instr = OkOp("CLS", NoOperand, NoOperand, NoOperand)
            /\ w = \h00EE => instr = OkOp("RET", NoOperand, NoOperand, NoOperand)
            /\ (Matching(w) = {}) <=> Unlisted(w)
            /\ Unlisted(w) <=> (instr = ErrOp(ErrUnknown))

\* an unlisted word of the 0x8 family has been fetched and refused
C2_Witness ==
    /\ Decoded
    /\ WordHi(FetchedWord) = 8
    /\ WordN(FetchedWord) = 15
    /\ instr = ErrOp(ErrUnknown)

\* C3: every word 0xDxyn decodes to DRAW on V(x) and V(y) with the sprite
\* height n, the low nibble of the word.
C3_DrawOperands ==
    Decoded /\ WordHi(FetchedWord) = 13 =>
        instr = OkOp("DRAW", V(WordX(FetchedWord)), V(WordY(FetchedWord)),
                     OperandByte(WordN(FetchedWord)))

\* C4: read_word(index) answers Err whenever index or index + 1 is no index
\* of the store, read_byte(index) whenever index is none, and neither call
\* ever aborts on an index out of bounds.
C4_AccessorsBoundsChecked ==
    /\ acc.kind # "Panic"
    /\ acc.fn = "read_word" /\ acc.index + 1 >= VecLen(ram) => acc.kind = "Err"
    /\ acc.fn = "read_byte" /\ acc.index >= VecLen(ram) => acc.kind = "Err"

\* C5: load_rom answers Err and leaves the store as it was for every image
\* longer than 4096 - 0x200 bytes, and succeeds only for the others.
C5_OversizedImageRejected ==
    loadres # "None" =>
        /\ VecLen(rom) > RamSize - RomBase => loadres = "Err" /\ ram = MmuNewRam
        /\ loadres = "Ok" => VecLen(rom) <= RamSize - RomBase

\* the byte that an image loaded at 0x200 puts at index k of a zeroed store
ImageByteAt(image, k) ==
    IF k >= RomBase /\ k < RomBase + VecLen(image) THEN VecAt(image, k - RomBase) ELSE 0

\* C6: the store has 4096 bytes in every state, and after a successful
\* load_rom bytes [0x200, 0x200 + len) are the image in order, all others 0.
C6_MemoryKeepsItsSize ==
    /\ VecLen(ram) = RamSize
    /\ loadres = "Ok" =>
          \A k \in 0..(VecLen(ram) - 1) : RamAt(ram, k) = ImageByteAt(rom, k)

\* C7: in the host loop, once a fetch or decode has returned an error nothing
\* is fetched or executed again: no variable changes in any later step.
C7_HaltedIsTerminal ==
    [][(instr.kind = "Err" \/ phase = "exited") => UNCHANGED vars]_vars

\* the loop has fetched at least one instruction and then stopped on an error
C7_Witness ==
    /\ phase = "exited"
    /\ instr.kind = "Err"
    /\ pc > PcStart

\* C8: each CALL pushes the current pc and sets pc to its 12-bit target,
\* each RET pops the stack into pc (so n CALLs and n RETs from depth 0 end
\* at depth 0, at the first CALL's return point).
C8_CallRetSymmetry ==
    [][/\ ExecuteInstruction /\ instr.name = "CALL" /\ sp < StackSize =>
            /\ pc' = instr.a.val
            /\ sp' = sp + 1
            /\ stack'[sp] = pc
       /\ ExecuteInstruction /\ instr.name = "RET" /\ sp > 0 =>
            /\ pc' = stack[sp - 1]
            /\ sp' = sp - 1]_vars

\* C9: of 17 CALLs executed in a row the first 16 succeed and the 17th is a
\* fatal stack overflow: the machine does not run on after it; and sp stays
\* in [0, 16).
C9_SeventeenthCallFaults ==
    /\ sp \in 0..(StackSize - 1)
    /\ ~(/\ rom = CallChain(StackSize + 1)
         /\ pc = PcStart + 2 * (StackSize + 1)
         /\ phase = "running")

\* the value an operand of SE / SNE stands for
OperandValue(o) == IF o.kind = "Register" THEN v[o.val] ELSE o.val

SkipTaken(ins) ==
    IF ins.name = "SE"
    THEN OperandValue(ins.a) = OperandValue(ins.b)
    ELSE OperandValue(ins.a) # OperandValue(ins.b)

\* C10: SE and SNE move pc from p to p + 4 exactly when their condition
\* holds (SE: operands equal, SNE: operands unequal), and to p + 2 otherwise.
C10_SkipAdvancesByFour ==
    [][ExecuteInstruction /\ instr.name \in {"SE", "SNE"} =>
            pc' = pc + (IF SkipTaken(instr) THEN 4 ELSE 2)]_vars

\* C11: the Cpu has no keypad input, so no key is ever pressed: every
\* execution of WAITKEY Vx (word 0xFx0A) suspends progress, leaving pc (and
\* Vx) as they were, however many times it is stepped.
C11_WaitKeySuspends ==
    [][ExecuteInstruction /\ instr.name = "WAITKEY" =>
            /\ pc' = pc
            /\ v' = v]_vars

\* C12: ADD Vx,Vy (word 0x8xy4) leaves V[x] = (V[x] + V[y]) mod 256 and
\* VF = 1 if the sum exceeds 255, else 0, and advances pc by 2.
C12_AddWithCarry ==
    [][ExecuteInstruction /\ WordHi(FetchedWord) = 8 /\ WordN(FetchedWord) = 4 =>
            LET x == WordX(FetchedWord)
                y == WordY(FetchedWord)
                sum == v[x] + v[y]
            IN  /\ x # NumRegs - 1 => v'[x] = sum % 256
                /\ v'[NumRegs - 1] = (IF sum > 255 THEN 1 ELSE 0)
                /\ pc' = pc + 2]_vars

\* the Cpu is about to fetch: read_instruction is the next call
BeforeFetch == phase = "running" /\ instr = NoInstr

\* C13: before each fetch pc is even and is an index of the store.
C13_PcEvenInBounds ==
    BeforeFetch => pc % 2 = 0 /\ pc < VecLen(ram)

\* every cell of a surface is unset
AllUnset(vr) == \A k \in 1..Len(vr) : vr[k].b = 0

\* C14: the bitmap has 2048 cells in every state, all unset at init, and
\* CLS leaves it with 2048 cells all unset and advances pc by 2.
C14_BitmapKeepsItsSize ==
    /\ [](VecLen(vram) = VramSize)
    /\ [](phase = "new" => AllUnset(vram))
    /\ [][ExecuteInstruction /\ instr.name = "CLS" =>
            /\ VecLen(vram') = VramSize
            /\ AllUnset(vram')
            /\ pc' = pc + 2]_vars

\* C15: JP nnn (word 0x1nnn) sets pc to nnn, the low 12 bits of the word,
\* with no further step of 2, and changes nothing else: not V0..V15, I, the
\* stack, sp, the store or the bitmap.
C15_JumpFrame ==
    [][ExecuteInstruction /\ WordHi(FetchedWord) = 1 =>
            /\ pc' = FetchedWord % 4096
            /\ UNCHANGED <<v, i, stack, sp, ram, vram>>]_vars

\* JP 0x203 has been executed after the image 12 03 was loaded
C15_Witness ==
    /\ BeforeFetch
    /\ RamAt(ram, PcStart) = \h12
    /\ RamAt(ram, PcStart + 1) = \h03
    /\ pc = \h203

\* C16: I is at most 0x0FFF in every state, and LD I,nnn (word 0xAnnn) sets
\* I to nnn, advances pc by 2 and changes no V register.
C16_IndexIsTwelveBits ==
    /\ [](i <= \h0FFF)
    /\ [][ExecuteInstruction /\ WordHi(FetchedWord) = 10 =>
            /\ i' = FetchedWord % 4096
            /\ pc' = pc + 2
            /\ v' = v]_vars

\* LD I,0xFFF has been executed
C16_Witness == BeforeFetch /\ i = \h0FFF /\ pc > PcStart

\* C17: no Op that read_instruction returns makes execute_instruction reach
\* a panic!: an LD with a byte source has a V register as destination, an
\* LD with an address source has I.
C17_LdNeverAborts ==
    Decoded /\ instr.kind = "Ok" =>
        /\ ~execute_instruction([vram |-> vram, v |-> v, i |-> i, stack |-> stack,
                                 sp |-> sp, pc |-> pc], instr).panic
        /\ instr.name = "LD" /\ instr.b.kind = "Byte" =>
              instr.a.kind = "Register" /\ instr.a.reg = "V"
        /\ instr.name = "LD" /\ instr.b.kind = "Addr" =>
              instr.a.kind = "Register" /\ instr.a.reg = "I"

\* an LD whose destination is neither a V register nor I has been decoded:
\* LD ST,Vx
C17_Witness ==
    /\ Decoded
    /\ instr.name = "LD"
    /\ instr.a = OperandRegister(RegisterSt)
    /\ instr.b.kind = "Register"

\* C18: for every image that load_rom accepts the host loop starts at
\* pc = 0x200, each turn either succeeds and moves pc up by exactly 2 or
\* fails on a fetch or decode error and ends the loop (never an abort), and
\* the loop does end: the run reaches "Program exited.".
C18_HostLoopStops ==
    /\ [](phase = "running" /\ instr = NoInstr => pc = PcStart)
    /\ [][MainLoop =>
            \/ instr'.kind = "Ok" /\ pc' = pc + 2 /\ phase' = "running"
            \/ instr'.kind = "Err" /\ pc' = pc /\ phase' = "exited"]_vars
    /\ (loadres = "Ok") ~> (phase = "exited")

\* the loop has run over the whole of an image that fills the store behind
\* 0x200 (or more), one address after the other, and has then stopped
C18_Witness ==
    /\ phase = "exited"
    /\ VecLen(rom) >= RamSize - RomBase
    /\ pc = RomBase + VecLen(rom)

====
